---- MODULE Spec2Model ----
(***************************************************************************)
(* The power-ranking engine of src/power_rankings_generator.py as a state  *)
(* machine.  A call of calculate_power_rankings is two actions: the        *)
(* pipeline up to build_power_scores, and rank_teams_by_score, which       *)
(* writes into the records the first part built.  The stage functions are  *)
(* operators.  rank_stat can also be called on its own.                    *)
(*                                                                         *)
(* Representation.                                                         *)
(*  - A Python dict (insertion ordered) is a sequence of entries           *)
(*    [k |-> key, v |-> value] with distinct keys.                         *)
(*  - None is the empty sequence, a present value x is <<x>>.              *)
(*  - A statistic value is exact: [num, rad, den] stands for the real      *)
(*    number (num - 3*sqrt(rad)) / den, den > 0.  Integers and fractions   *)
(*    have rad = 0; only the consistency figure has rad # 0.               *)
(*  - Decimal outputs (round(x, 2)) are integers counting hundredths.      *)
(*  - f-strings "W-L-T" and "W-L" are the tuples <<W, L, T>> and <<W, L>>. *)
(***************************************************************************)
EXTENDS Integers, Sequences, FiniteSets, TLC

VARIABLES
    data_teams,         \* data["teams"]
    data_schedule,      \* data["schedule"]
    ros_arg,            \* the ros_strength argument (None or a dict)
    env_MAX_WEEK,       \* os.getenv("MAX_WEEK"): None or a string
    pc,                 \* position in calculate_power_rankings / rank_stat
    error,              \* the exception that ended the call, "" if none
    schedule,           \* local schedule (after the MAX_WEEK filter)
    current_week,       \* local current_week (None until computed)
    stats,              \* the stats dict of lines 274-284
    heap,               \* the power-score record objects, by object id
    power_scores,       \* list of object ids returned by build_power_scores
    ranked_teams,       \* list of object ids returned by rank_teams_by_score
    rs_in,              \* rank_stat under test: its stat_dict argument
    rs_reverse,         \* rank_stat under test: its reverse argument
    rs_out              \* rank_stat under test: the returned ranks

vars == <<data_teams, data_schedule, ros_arg, env_MAX_WEEK, pc, error, schedule,
          current_week, stats, heap, power_scores, ranked_teams,
          rs_in, rs_reverse, rs_out>>

(***************************************************************************)
(* Bounds of the explored inputs.                                          *)
(***************************************************************************)
MaxWeek == 3
MaxStatTeams == 3
MaxStatValue == 2
Points == {90, 100}

(***************************************************************************)
(* Program constants.                                                      *)
(***************************************************************************)
DefaultRos == 50
RecordRampWeeks == 3
ConsistencyStartWeek == 3
RecordRampTenths == 12
RecordCapTenths == 30
OverallTenths == 10
ConsistencyTenths == 10
PpgTenths == 10
RosTenths == 12

None == <<>>
Some(x) == <<x>>

(***************************************************************************)
(* Generic helpers.                                                        *)
(***************************************************************************)
RECURSIVE SumSeq(_)
SumSeq(s) == IF s = <<>> THEN 0 ELSE s[1] + SumSeq(Tail(s))

RECURSIVE SumSq(_)
SumSq(s) == IF s = <<>> THEN 0 ELSE s[1] * s[1] + SumSq(Tail(s))

RECURSIVE SetSum(_, _)
SetSum(S, f) ==
    IF S = {} THEN 0
    ELSE LET x == CHOOSE y \in S : TRUE IN f[x] + SetSum(S \ {x}, f)

SetMax(S) == CHOOSE x \in S : \A y \in S : y <= x
SetMin(S) == CHOOSE x \in S : \A y \in S : x <= y

RECURSIVE Gcd(_, _)
Gcd(a, b) == IF b = 0 THEN a ELSE Gcd(b, a % b)
Lcm(a, b) == (a * b) \div Gcd(a, b)

RECURSIVE LcmAll(_)
LcmAll(S) ==
    IF S = {} THEN 1
    ELSE LET x == CHOOSE y \in S : TRUE IN Lcm(x, LcmAll(S \ {x}))

\* All sequences over S of length 0..n.
RECURSIVE SeqsUpTo(_, _)
SeqsUpTo(S, n) ==
    IF n = 0 THEN {<<>>}
    ELSE LET shorter == SeqsUpTo(S, n - 1)
         IN shorter \cup {Append(s, x) : s \in {t \in shorter : Len(t) = n - 1}, x \in S}

(***************************************************************************)
(* Python dicts.                                                           *)
(***************************************************************************)
DKeys(d) == {d[i].k : i \in DOMAIN d}
DHas(d, key) == key \in DKeys(d)
DIndex(d, key) == CHOOSE i \in DOMAIN d : d[i].k = key
DGet(d, key) == d[DIndex(d, key)].v
DPut(d, key, val) ==
    IF DHas(d, key) THEN [d EXCEPT ![DIndex(d, key)].v = val]
    ELSE Append(d, [k |-> key, v |-> val])
\* dict.get(key, default) and defaultdict reads
DGetOr(d, key, default) == IF DHas(d, key) THEN DGet(d, key) ELSE default

(***************************************************************************)
(* Exact statistic values (num - 3*sqrt(rad)) / den.                       *)
(***************************************************************************)
Rat(n, d) == [num |-> n, rad |-> 0, den |-> d]
IntVal(n) == Rat(n, 1)
IntVals(d) == [i \in DOMAIN d |-> [k |-> d[i].k, v |-> IntVal(d[i].v)]]

\* x - y = (D - 3*sqrt(u) + 3*sqrt(w)) / (a positive number)
ValD(x, y) == IF x.den = y.den THEN x.num - y.num ELSE x.num * y.den - y.num * x.den
ValU(x, y) == IF x.den = y.den THEN x.rad ELSE x.rad * y.den * y.den
ValW(x, y) == IF x.den = y.den THEN y.rad ELSE y.rad * x.den * x.den
\* |D| > 3*|sqrt(u) - sqrt(w)|  iff  18*sqrt(u*w) > F,  F = 9*(u + w) - D^2
ValF(x, y) == 9 * (ValU(x, y) + ValW(x, y)) - ValD(x, y) * ValD(x, y)

\* the sign of F^2 - 324*P for F >= 0, P >= 0, computed from F = 18*q + r as
\* 36*q*r + r^2 - 324*(P - q^2) so that no product leaves the machine integers
SignSq(F, P) ==
    LET q == F \div 18
        r == F % 18
        k == P - q * q
        lhs == 36 * q * r + r * r
    IN  IF k < 0 THEN 1
        ELSE IF k > 2 * q + 1 THEN -1
        ELSE IF lhs > 324 * k THEN 1
        ELSE IF lhs < 324 * k THEN -1
        ELSE 0

\* Python's x > y
ValGreater(x, y) ==
    LET D == ValD(x, y)
        u == ValU(x, y)
        w == ValW(x, y)
        F == ValF(x, y)
    IN  IF D >= 0 /\ w >= u THEN D > 0 \/ w > u
        ELSE IF D <= 0 /\ w <= u THEN FALSE
        ELSE IF D > 0 THEN F < 0 \/ SignSq(F, u * w) < 0
        ELSE F > 0 /\ SignSq(F, u * w) > 0

\* Python's x == y
ValEq(x, y) ==
    LET D == ValD(x, y)
        u == ValU(x, y)
        w == ValW(x, y)
        F == ValF(x, y)
    IN  IF (D >= 0 /\ w >= u) \/ (D <= 0 /\ w <= u) THEN D = 0 /\ u = w
        ELSE F >= 0 /\ SignSq(F, u * w) = 0

ValLess(x, y) == ValGreater(y, x)

(***************************************************************************)
(* sorted(items, key=lambda x: x[1], reverse=reverse): stable in both      *)
(* directions, so an item goes before the first already placed item that   *)
(* must strictly follow it.                                                *)
(***************************************************************************)
InsertAt(s, x, p) == SubSeq(s, 1, p - 1) \o <<x>> \o SubSeq(s, p, Len(s))

FirstOr(positions, default) == IF positions = {} THEN default ELSE SetMin(positions)

InsertSorted(s, x, reverse) ==
    InsertAt(s, x,
             FirstOr({i \in DOMAIN s :
                        IF reverse THEN ValLess(s[i].v, x.v) ELSE ValGreater(s[i].v, x.v)},
                     Len(s) + 1))

RECURSIVE SortedFrom(_, _, _, _)
SortedFrom(items, i, acc, reverse) ==
    IF i > Len(items) THEN acc
    ELSE SortedFrom(items, i + 1, InsertSorted(acc, items[i], reverse), reverse)

sorted(items, reverse) == SortedFrom(items, 1, <<>>, reverse)

(***************************************************************************)
(* rank_stat (lines 145-166).                                              *)
(***************************************************************************)
rank_of_tied_dense(idx, prev_rank) == prev_rank + 1

\* the rank given to the item at 1-based position idx whose value differs from
\* the previous one (line 163)
rank_of_new_value(idx, prev_rank) == idx

RECURSIVE rank_walk(_, _, _, _, _)
rank_walk(sorted_items, idx, ranks, prev_value, prev_rank) ==
    IF idx > Len(sorted_items) THEN ranks
    ELSE LET tid == sorted_items[idx].k
             value == sorted_items[idx].v
         IN  IF prev_value # None /\ ValEq(value, prev_value[1])
             THEN rank_walk(sorted_items, idx + 1, DPut(ranks, tid, prev_rank),
                            prev_value, prev_rank)
             ELSE rank_walk(sorted_items, idx + 1,
                            DPut(ranks, tid, rank_of_new_value(idx, prev_rank)),
                            Some(value), rank_of_new_value(idx, prev_rank))

rank_stat(stat_dict, reverse) == rank_walk(sorted(stat_dict, reverse), 1, <<>>, None, 0)

(***************************************************************************)
(* round(x, 2) of x = num/den, in hundredths (round half to even).         *)
(***************************************************************************)
Round2(num, den) ==
    LET q == (100 * num) \div den
        r == (100 * num) % den
    IN  IF 2 * r < den THEN q
        ELSE IF 2 * r > den THEN q + 1
        ELSE IF q % 2 = 0 THEN q ELSE q + 1

(***************************************************************************)
(* get_current_week (lines 6-21): None stands for the ValueError that      *)
(* max() raises on an empty sequence.                                      *)
(***************************************************************************)
\* m.get("winner") and m["winner"] != "UNDECIDED"; an absent key is "NONE"
winner_decided_ignoring_sentinel(m) == m.winner # "NONE"

winner_decided(m) == m.winner # "NONE" /\ m.winner # "UNDECIDED"

get_current_week(sched) ==
    LET weeks == {sched[i].matchupPeriodId : i \in {j \in DOMAIN sched : winner_decided(sched[j])}}
    IN  IF weeks = {} THEN None ELSE Some(SetMax(weeks))

(***************************************************************************)
(* get_team_info (lines 23-49).                                            *)
(***************************************************************************)
team_info_entry(team) ==
    LET games_played == team.wins + team.losses + team.ties
    IN  [team_name |-> team.name,
         record_str |-> <<team.wins, team.losses, team.ties>>,
         record_score |-> IF games_played # 0
                          THEN Rat(2 * team.wins + team.ties, 2 * games_played)
                          ELSE IntVal(0),
         games_played |-> games_played]

RECURSIVE team_info_from(_, _, _)
team_info_from(teams, i, tinfo) ==
    IF i > Len(teams) THEN tinfo
    ELSE team_info_from(teams, i + 1, DPut(tinfo, teams[i].id, team_info_entry(teams[i])))

get_team_info(teams) == team_info_from(teams, 1, <<>>)

(***************************************************************************)
(* calculate_team_scores (lines 51-66).                                    *)
(***************************************************************************)
\* "home" in match and "away" in match
is_scored(match) == match.has_home /\ match.has_away

RECURSIVE team_scores_from(_, _, _)
team_scores_from(sched, i, tscores) ==
    IF i > Len(sched) THEN tscores
    ELSE LET match == sched[i]
             with_home == DPut(tscores, match.home.teamId,
                               Append(DGetOr(tscores, match.home.teamId, <<>>),
                                      match.home.totalPoints))
             with_away == DPut(with_home, match.away.teamId,
                               Append(DGetOr(with_home, match.away.teamId, <<>>),
                                      match.away.totalPoints))
         IN  team_scores_from(sched, i + 1, IF is_scored(match) THEN with_away ELSE tscores)

calculate_team_scores(sched) == team_scores_from(sched, 1, <<>>)

(***************************************************************************)
(* calculate_ppg (lines 68-82).                                            *)
(***************************************************************************)
ppg_of(scores) == IF Len(scores) # 0 THEN Rat(SumSeq(scores), Len(scores)) ELSE IntVal(0)

team_ppg_of(tscores) ==
    [i \in DOMAIN tscores |-> [k |-> tscores[i].k, v |-> ppg_of(tscores[i].v)]]

ppg_result(team_ppg) == [team_ppg |-> team_ppg, ppg_ranks |-> rank_stat(team_ppg, TRUE)]

calculate_ppg(tscores) == ppg_result(team_ppg_of(tscores))

(***************************************************************************)
(* calculate_consistency (lines 84-108).  Every team's figure is written   *)
(* over one denominator scale, a common multiple of n and n*(n-1) for the  *)
(* history lengths n that occur:                                           *)
(*   ppg         = (scale * S / n) / scale                                 *)
(*   stdev       = sqrt(scale^2 * (n*Q - S^2) / (n*(n-1))) / scale         *)
(* with S the sum and Q the sum of squares of the history.  The divisor    *)
(* 0.75 * league_avg_ppg is the same positive number for every team (the   *)
(* points are non-negative), and the figures are only ranked, so it is     *)
(* left out of the stored value.                                           *)
(***************************************************************************)
stdev_den(n) == IF n > 1 THEN n * (n - 1) ELSE 1

consistency_scale(tscores) ==
    LcmAll({stdev_den(Len(tscores[i].v)) : i \in DOMAIN tscores})

\* scale * sum(team_ppg.values()); its sign is the sign of league_avg_ppg
league_ppg_sum(tscores, scale) ==
    SetSum(DOMAIN tscores,
           [i \in DOMAIN tscores |->
              IF Len(tscores[i].v) # 0
              THEN (scale * SumSeq(tscores[i].v)) \div Len(tscores[i].v)
              ELSE 0])

consistency_of(scores, scale) ==
    LET n == Len(scores)
        S == SumSeq(scores)
        Q == SumSq(scores)
    IN  [num |-> IF n # 0 THEN (scale * S) \div n ELSE 0,
         rad |-> IF n > 1 THEN (scale * scale * (n * Q - S * S)) \div (n * (n - 1)) ELSE 0,
         den |-> scale]

consistency_scores_at(tscores, scale, league_sum) ==
    [i \in DOMAIN tscores |->
       [k |-> tscores[i].k,
        v |-> IF league_sum # 0 THEN consistency_of(tscores[i].v, scale) ELSE IntVal(0)]]

consistency_scores_scaled(tscores, scale) ==
    consistency_scores_at(tscores, scale, league_ppg_sum(tscores, scale))

consistency_scores_of(tscores) ==
    consistency_scores_scaled(tscores, consistency_scale(tscores))

consistency_result(scores) ==
    [consistency_scores |-> scores, consistency_ranks |-> rank_stat(scores, TRUE)]

calculate_consistency(tscores) == consistency_result(consistency_scores_of(tscores))

(***************************************************************************)
(* calculate_overall_wins_and_losses (lines 110-143).                      *)
(***************************************************************************)
\* wins credited to the entry at 0-based position i of a week's sorted list
\* (line 137)
week_wins(n_teams, i) == n_teams - 1 - i

\* losses credited to that entry (line 138)
week_losses(i) == i

RECURSIVE weekly_matchups_from(_, _, _)
weekly_matchups_from(sched, i, weekly) ==
    IF i > Len(sched) THEN weekly
    ELSE LET match == sched[i]
             week == match.matchupPeriodId
             extended == DGetOr(weekly, week, <<>>) \o
                         << [k |-> match.home.teamId, v |-> IntVal(match.home.totalPoints)],
                            [k |-> match.away.teamId, v |-> IntVal(match.away.totalPoints)] >>
         IN  weekly_matchups_from(sched, i + 1,
                                  IF is_scored(match) THEN DPut(weekly, week, extended) ELSE weekly)

\* the inner loop over one week's sorted entries (lines 136-140)
RECURSIVE credit_week(_, _, _, _)
credit_week(sorted_week, i, n_teams, tally) ==
    IF i >= Len(sorted_week) THEN tally
    ELSE LET tid == sorted_week[i + 1].k
             wins == week_wins(n_teams, i)
             losses == week_losses(i)
         IN  credit_week(sorted_week, i + 1, n_teams,
                 [overall_wins |-> DPut(tally.overall_wins, tid,
                                        DGetOr(tally.overall_wins, tid, 0) + wins),
                  overall_losses |-> DPut(tally.overall_losses, tid,
                                          DGetOr(tally.overall_losses, tid, 0) + losses)])

\* the outer loop over the weeks (lines 134-135)
RECURSIVE credit_weeks(_, _, _, _)
credit_weeks(weekly, w, n_teams, tally) ==
    IF w > Len(weekly) THEN tally
    ELSE credit_weeks(weekly, w + 1, n_teams,
                      credit_week(sorted(weekly[w].v, TRUE), 0, n_teams, tally))

overall_result(tally) ==
    [overall_wins |-> tally.overall_wins,
     overall_losses |-> tally.overall_losses,
     overall_ranks |-> rank_stat(IntVals(tally.overall_wins), TRUE)]

calculate_overall_wins_and_losses(sched, n_teams) ==
    overall_result(credit_weeks(weekly_matchups_from(sched, 1, <<>>), 1, n_teams,
                                [overall_wins |-> <<>>, overall_losses |-> <<>>]))

(***************************************************************************)
(* build_power_scores (lines 168-210).  The result is None when a rank     *)
(* lookup raises KeyError, else the list of records.                       *)
(***************************************************************************)
record_scores(tinfo) ==
    [i \in DOMAIN tinfo |-> [k |-> tinfo[i].k, v |-> tinfo[i].v.record_score]]

\* the lookups of lines 191-195 that raise KeyError on a missing team
lookups_succeed(tid, st, week) ==
    /\ DHas(st.overall_ranks, tid)
    /\ (week >= ConsistencyStartWeek => DHas(st.consistency_ranks, tid))
    /\ DHas(st.ppg_ranks, tid)
    /\ DHas(st.ros_ranks, tid)

\* lines 191-197, in tenths
pr_score_tenths(record_rank, tid, st, weights, week) ==
    record_rank * weights.record
    + DGet(st.overall_ranks, tid) * weights.overall
    + (IF week >= ConsistencyStartWeek THEN DGet(st.consistency_ranks, tid) * weights.consistency ELSE 0)
    + DGet(st.ppg_ranks, tid) * weights.ppg
    + DGet(st.ros_ranks, tid) * weights.ros

power_score_record(tid, info, record_rank, st, weights, week) ==
    [team_id |-> tid,
     team_name |-> info.team_name,
     record |-> info.record_str,
     overall_wins |-> <<DGetOr(st.overall_wins, tid, 0), DGetOr(st.overall_losses, tid, 0)>>,
     consistency |-> IF DHas(st.consistency_ranks, tid)
                     THEN Some(DGet(st.consistency_ranks, tid)) ELSE None,
     ppg |-> IF DHas(st.ppg, tid)
             THEN Round2(DGet(st.ppg, tid).num, DGet(st.ppg, tid).den) ELSE 0,
     ros_strength |-> DGetOr(st.ros_strength, tid, DefaultRos),
     pr_score |-> Round2(pr_score_tenths(record_rank, tid, st, weights, week), 10)]

\* the loop of lines 190-208
power_score_records(tinfo, record_ranks, st, weights, week) ==
    IF \A i \in DOMAIN tinfo : lookups_succeed(tinfo[i].k, st, week)
    THEN Some([i \in DOMAIN tinfo |->
                 power_score_record(tinfo[i].k, tinfo[i].v,
                                    DGet(record_ranks, tinfo[i].k), st, weights, week)])
    ELSE None

build_power_scores(tinfo, st, weights, week) ==
    power_score_records(tinfo, rank_stat(record_scores(tinfo), TRUE), st, weights, week)

(***************************************************************************)
(* rank_teams_by_score (lines 212-226).  power_scores is a list of         *)
(* references (object ids) into the heap; sorted() builds a new list of    *)
(* the same references, and the loop writes into the referenced objects.   *)
(***************************************************************************)
\* the list as items keyed by x["pr_score"]
score_items(scores, objects) ==
    [i \in DOMAIN scores |-> [k |-> scores[i], v |-> IntVal(objects[scores[i]].pr_score)]]

items_keys(items) == [i \in DOMAIN items |-> items[i].k]

sorted_scores_descending(scores, objects) ==
    items_keys(sorted(score_items(scores, objects), TRUE))

\* line 222
sorted_scores(scores, objects) == items_keys(sorted(score_items(scores, objects), FALSE))

\* lines 223-225: the heap after the loop
ranked_heap(order, objects) ==
    [o \in DOMAIN objects |->
       IF \E r \in DOMAIN order : order[r] = o
       THEN [power_rank |-> CHOOSE r \in DOMAIN order : order[r] = o,
             change |-> "placeholder"] @@ objects[o]
       ELSE objects[o]]

(***************************************************************************)
(* calculate_power_rankings (lines 228-297), stage by stage.               *)
(***************************************************************************)
Digits == <<"0", "1", "2", "3", "4", "5", "6", "7", "8", "9">>

\* int(s) for a one-digit string
ParseInt(s) == (CHOOSE i \in DOMAIN Digits : Digits[i] = s) - 1

\* line 257 without the guard of line 256
filter_by_max_week(sched, bound) ==
    SelectSeq(sched, LAMBDA m : m.matchupPeriodId <= bound)

\* lines 250-251
max_week_of(env) == IF env # None /\ env[1] # "" THEN Some(ParseInt(env[1])) ELSE None

\* lines 254-257: `if max_week:` is false for None and for 0
filtered_schedule(sched, bound) ==
    IF bound # None /\ bound[1] # 0 THEN filter_by_max_week(sched, bound[1]) ELSE sched

\* line 260: `ros_strength or {...}`
ros_or_default(ros, teams) ==
    IF ros # None /\ ros[1] # <<>> THEN ros[1]
    ELSE [i \in DOMAIN teams |-> [k |-> teams[i].id, v |-> DefaultRos]]

record_weight_uncapped(week) == RecordRampTenths * week

\* line 273, in tenths
record_weight(week) ==
    IF week < RecordRampWeeks THEN RecordRampTenths * week ELSE RecordCapTenths

\* lines 286-292, in tenths
weights_for(week) ==
    [record |-> record_weight(week),
     overall |-> OverallTenths,
     consistency |-> ConsistencyTenths,
     ppg |-> PpgTenths,
     ros |-> RosTenths]

\* lines 267-271 and 274-284
stats_dict(p, c, o, ros, ros_ranks) ==
    [ppg |-> p.team_ppg,
     ppg_ranks |-> p.ppg_ranks,
     consistency_scores |-> c.consistency_scores,
     consistency_ranks |-> c.consistency_ranks,
     overall_wins |-> o.overall_wins,
     overall_losses |-> o.overall_losses,
     overall_ranks |-> o.overall_ranks,
     ros_strength |-> ros,
     ros_ranks |-> ros_ranks]

stats_for(sched, scores, n_teams, ros) ==
    stats_dict(calculate_ppg(scores), calculate_consistency(scores),
               calculate_overall_wins_and_losses(sched, n_teams), ros,
               rank_stat(IntVals(ros), TRUE))

inputs == <<data_teams, data_schedule, ros_arg, env_MAX_WEEK>>
rs_vars == <<rs_in, rs_reverse, rs_out>>

\* lines 249-294: everything up to the call of rank_teams_by_score.  The call
\* ends here when get_current_week raises ValueError (line 262) or when
\* build_power_scores raises KeyError (line 294).
ScoreTeams ==
    /\ pc = "call"
    /\ \E sched \in {filtered_schedule(data_schedule, max_week_of(env_MAX_WEEK))} :
       \E week \in {get_current_week(sched)} :
          /\ schedule' = sched
          /\ IF week = None
             THEN /\ pc' = "raised"
                  /\ error' = "ValueError"
                  /\ UNCHANGED <<current_week, stats, heap, power_scores>>
             ELSE \E tinfo \in {get_team_info(data_teams)} :
                  \E scores \in {calculate_team_scores(sched)} :
                  \E st \in {stats_for(sched, scores, Len(data_teams),
                                       ros_or_default(ros_arg, data_teams))} :
                  \E built \in {build_power_scores(tinfo, st, weights_for(week[1]), week[1])} :
                     /\ current_week' = week
                     /\ stats' = Some(st)
                     /\ IF built = None
                        THEN /\ pc' = "raised"
                             /\ error' = "KeyError"
                             /\ UNCHANGED <<heap, power_scores>>
                        ELSE /\ pc' = "rank"
                             /\ heap' = built[1]
                             /\ power_scores' = Some([i \in DOMAIN built[1] |-> i])
                             /\ UNCHANGED error
    /\ UNCHANGED <<inputs, rs_vars, ranked_teams>>

\* lines 295-297
RankTeamsByScore ==
    /\ pc = "rank"
    /\ \E order \in {sorted_scores(power_scores[1], heap)} :
          /\ ranked_teams' = Some(order)
          /\ heap' = ranked_heap(order, heap)
    /\ pc' = "returned"
    /\ UNCHANGED <<inputs, rs_vars, error, schedule, current_week, stats, power_scores>>

(***************************************************************************)
(* League snapshots.  The league is the three teams of the end-to-end      *)
(* example, and a schedule holds at most as many matchups as it takes for  *)
(* every team to have played.  A played matchup names the side with more   *)
(* points as its winner; a matchup not played yet is "UNDECIDED" with both *)
(* totals 0; a bye has a home side only and no winner key.  Each team's    *)
(* season record is the tally of the played matchups, as in the data the   *)
(* engine is fed.                                                          *)
(***************************************************************************)
TeamIds == {1, 2, 3}
Weeks == 1..MaxWeek

Side(t, p) == [teamId |-> t, totalPoints |-> p]
NoSide == Side(0, 0)

winner_of(hp, ap) == IF hp > ap THEN "HOME" ELSE IF ap > hp THEN "AWAY" ELSE "TIE"

Pairings == {<<h, a>> \in TeamIds \X TeamIds : h # a}

PlayedMatchups ==
    {[matchupPeriodId |-> w, winner |-> winner_of(hp, ap),
      has_home |-> TRUE, has_away |-> TRUE,
      home |-> Side(pr[1], hp), away |-> Side(pr[2], ap)] :
        w \in Weeks, pr \in Pairings, hp \in Points, ap \in Points}

UnplayedMatchups ==
    {[matchupPeriodId |-> w, winner |-> "UNDECIDED",
      has_home |-> TRUE, has_away |-> TRUE,
      home |-> Side(pr[1], 0), away |-> Side(pr[2], 0)] :
        w \in Weeks, pr \in Pairings}

ByeMatchups ==
    {[matchupPeriodId |-> w, winner |-> "NONE", has_home |-> TRUE, has_away |-> FALSE,
      home |-> Side(1, 0), away |-> NoSide] : w \in Weeks}

Matchups == PlayedMatchups \cup UnplayedMatchups \cup ByeMatchups
Schedules == SeqsUpTo(Matchups, Cardinality(TeamIds) - 1)

\* the outcome of matchup m for team t: "W", "L", "T", or "" if t has none
outcome_for(m, t) ==
    IF m.winner = "HOME" /\ m.home.teamId = t THEN "W"
    ELSE IF m.winner = "AWAY" /\ m.away.teamId = t THEN "W"
    ELSE IF m.winner = "HOME" /\ m.away.teamId = t THEN "L"
    ELSE IF m.winner = "AWAY" /\ m.home.teamId = t THEN "L"
    ELSE IF m.winner = "TIE" /\ (m.home.teamId = t \/ m.away.teamId = t) THEN "T"
    ELSE ""

\* how many matchups of sched have the given outcome for team t
CountMatchups(sched, t, outcome) ==
    Cardinality({i \in DOMAIN sched : outcome_for(sched[i], t) = outcome})

season_team(t, sched) ==
    [id |-> t,
     name |-> t,
     wins |-> CountMatchups(sched, t, "W"),
     losses |-> CountMatchups(sched, t, "L"),
     ties |-> CountMatchups(sched, t, "T")]

TeamList == [t \in 1..Cardinality(TeamIds) |-> t]

\* MAX_WEEK unset, or set to a week before the last one
EnvChoices == {None} \cup {Some(Digits[n + 1]) : n \in 0..(MaxWeek - 1)}

\* ros_strength given: one team rated above the rest, or all rated apart (and
\* listed in the reverse of the teams' order)
RosDicts ==
    {[i \in DOMAIN TeamList |->
        [k |-> TeamList[i], v |-> IF TeamList[i] = t THEN DefaultRos + 10 ELSE DefaultRos]] :
        t \in TeamIds}
    \cup {[i \in DOMAIN TeamList |->
            [k |-> TeamList[Len(TeamList) + 1 - i], v |-> DefaultRos - i]]}

Configs == {<<e, None>> : e \in EnvChoices} \cup {<<None, Some(r)>> : r \in RosDicts}

Idle ==
    /\ error = ""
    /\ schedule = None
    /\ current_week = None
    /\ stats = None
    /\ heap = <<>>
    /\ power_scores = None
    /\ ranked_teams = None

Init ==
    /\ data_schedule \in Schedules
    /\ data_teams = [i \in DOMAIN TeamList |-> season_team(TeamList[i], data_schedule)]
    /\ \E c \in Configs : env_MAX_WEEK = c[1] /\ ros_arg = c[2]
    /\ pc = "call"
    /\ Idle
    /\ rs_in = <<>> /\ rs_reverse = TRUE /\ rs_out = None

Next == ScoreTeams \/ RankTeamsByScore

Spec == Init /\ [][Next]_vars

(***************************************************************************)
(* rank_stat on its own: every dict over at most MaxStatTeams keys, in     *)
(* every insertion order, with values n/d.                                 *)
(***************************************************************************)
StatValues == {Rat(n, d) : n \in 0..MaxStatValue, d \in {1, 2}}

\* the insertion orders of n distinct keys
StatKeyOrders(n) ==
    {ks \in [1..n -> 1..MaxStatTeams] : \A i, j \in 1..n : i # j => ks[i] # ks[j]}

\* the dicts of n entries
StatDictsOfLen(n) ==
    {[i \in 1..n |-> [k |-> ks[i], v |-> vs[i]]] :
        ks \in StatKeyOrders(n), vs \in [1..n -> StatValues]}

CallRankStat ==
    /\ pc = "rank_stat"
    /\ rs_out' = Some(rank_stat(rs_in, rs_reverse))
    /\ pc' = "rank_stat_done"
    /\ UNCHANGED <<inputs, rs_in, rs_reverse, error, schedule, current_week, stats, heap,
                   power_scores, ranked_teams>>

InitRankStat ==
    /\ \E n \in 0..MaxStatTeams : rs_in \in StatDictsOfLen(n)
    /\ rs_reverse \in BOOLEAN
    /\ rs_out = None
    /\ pc = "rank_stat"
    /\ data_teams = <<>> /\ data_schedule = <<>> /\ ros_arg = None /\ env_MAX_WEEK = None
    /\ Idle

NextRankStat == CallRankStat

SpecRankStat == InitRankStat /\ [][NextRankStat]_vars

(***************************************************************************)
(* Vocabulary of the properties.                                           *)
(***************************************************************************)
Finished == pc \in {"returned", "raised"}

\* the record returned at 1-based position k
RankedRecord(k) == heap[ranked_teams[1][k]]

\* the returned record of team tid
RecordOfTeam(tid) == heap[CHOOSE o \in DOMAIN heap : heap[o].team_id = tid]

\* the matchups of sched with both sides, as score entries
ScoreEntries(sched) ==
    {[i |-> i, side |-> sd] : i \in {j \in DOMAIN sched : sched[j].has_home /\ sched[j].has_away},
                             sd \in {"home", "away"}}
EntryTeam(sched, e) ==
    IF e.side = "home" THEN sched[e.i].home.teamId ELSE sched[e.i].away.teamId
EntryPoints(sched, e) ==
    IF e.side = "home" THEN sched[e.i].home.totalPoints ELSE sched[e.i].away.totalPoints
EntryWeek(sched, e) == sched[e.i].matchupPeriodId
EntriesOf(sched, tid) == {e \in ScoreEntries(sched) : EntryTeam(sched, e) = tid}
WeekEntries(sched, w) == {e \in ScoreEntries(sched) : EntryWeek(sched, e) = w}
TeamsScoring(sched, w) == {EntryTeam(sched, e) : e \in WeekEntries(sched, w)}

\* the matchups whose winner is present and not "UNDECIDED"
Decided(sched) == {i \in DOMAIN sched : sched[i].winner \notin {"NONE", "UNDECIDED"}}

\* (wins + ties/2) / games of a team, compared without division
RecordTwice(team) == 2 * team.wins + team.ties
RecordGames(team) == team.wins + team.losses + team.ties
RecordBetter(a, b) ==
    IF RecordGames(a) = 0 THEN FALSE
    ELSE IF RecordGames(b) = 0 THEN RecordTwice(a) > 0
    ELSE RecordTwice(a) * RecordGames(b) > RecordTwice(b) * RecordGames(a)
RecordRank(tid) ==
    LET me == CHOOSE i \in DOMAIN data_teams : data_teams[i].id = tid
    IN  1 + Cardinality({i \in DOMAIN data_teams : RecordBetter(data_teams[i], data_teams[me])})

(***************************************************************************)
(* C1: whenever calculate_power_rankings returns, the list holds exactly   *)
(* one record per team, composite scores are non-decreasing along it, and  *)
(* the record at position k has power_rank k.                              *)
(***************************************************************************)
C1_RankedOutput ==
    pc = "returned" =>
        /\ Len(ranked_teams[1]) = Len(data_teams)
        /\ \A i \in DOMAIN data_teams :
              Cardinality({k \in DOMAIN ranked_teams[1] :
                              RankedRecord(k).team_id = data_teams[i].id}) = 1
        /\ \A k \in 1..(Len(ranked_teams[1]) - 1) :
              RankedRecord(k).pr_score <= RankedRecord(k + 1).pr_score
        /\ \A k \in DOMAIN ranked_teams[1] : RankedRecord(k).power_rank = k

\* a returned ranking with a tie in the composite score, a strict step, and an
\* order that is not the teams' order
C1_Witness ==
    /\ pc = "returned"
    /\ \E k \in 1..(Len(ranked_teams[1]) - 1) :
          RankedRecord(k).pr_score = RankedRecord(k + 1).pr_score
    /\ \E k \in 1..(Len(ranked_teams[1]) - 1) :
          RankedRecord(k).pr_score < RankedRecord(k + 1).pr_score
    /\ RankedRecord(1).team_id # data_teams[1].id

(***************************************************************************)
(* C2: the end-to-end example.  Three teams, one decided week-1 matchup,   *)
(* team 1 at home with 100 against team 2 with 90, team 3 in no matchup,   *)
(* default ROS strength: the call returns a ranking in which team 1 has    *)
(* PPG 100 and all-play record 1-0, team 2 has PPG 90 and all-play record  *)
(* 0-1, and team 1 is placed ahead of team 2.                              *)
(***************************************************************************)
ExampleSnapshot ==
    /\ data_schedule = << [matchupPeriodId |-> 1, winner |-> "HOME",
                           has_home |-> TRUE, has_away |-> TRUE,
                           home |-> Side(1, 100), away |-> Side(2, 90)] >>
    /\ data_teams = << [id |-> 1, name |-> 1, wins |-> 1, losses |-> 0, ties |-> 0],
                       [id |-> 2, name |-> 2, wins |-> 0, losses |-> 1, ties |-> 0],
                       [id |-> 3, name |-> 3, wins |-> 0, losses |-> 0, ties |-> 0] >>
    /\ ros_arg = None
    /\ env_MAX_WEEK = None

C2_EndToEndExample ==
    (ExampleSnapshot /\ Finished) =>
        /\ pc = "returned"
        /\ RecordOfTeam(1).ppg = 100 * 100
        /\ RecordOfTeam(1).overall_wins = <<1, 0>>
        /\ RecordOfTeam(2).ppg = 90 * 100
        /\ RecordOfTeam(2).overall_wins = <<0, 1>>
        /\ RecordOfTeam(1).power_rank < RecordOfTeam(2).power_rank

(***************************************************************************)
(* C3: with at least one decided matchup, every team gets an output record *)
(* whose ppg is the mean of its score history, and a team that appears in  *)
(* no scored matchup gets ppg 0 instead of a failure.                      *)
(***************************************************************************)
TotalPoints(sched, tid) ==
    SetSum(EntriesOf(sched, tid), [e \in EntriesOf(sched, tid) |-> EntryPoints(sched, e)])

MeanHundredths(sched, tid) ==
    IF EntriesOf(sched, tid) = {} THEN 0
    ELSE Round2(TotalPoints(sched, tid), Cardinality(EntriesOf(sched, tid)))

C3_PpgForEveryTeam ==
    (Finished /\ Decided(schedule) # {}) =>
        /\ pc = "returned"
        /\ \A i \in DOMAIN data_teams :
              /\ \E o \in DOMAIN heap : heap[o].team_id = data_teams[i].id
              /\ RecordOfTeam(data_teams[i].id).ppg = MeanHundredths(schedule, data_teams[i].id)

(***************************************************************************)
(* C4: get_current_week returns the largest matchupPeriodId among the      *)
(* matchups whose winner is present and not "UNDECIDED", and fails exactly *)
(* when there is none; calculate_power_rankings then fails as a whole and  *)
(* returns no ranking, not even a partial one.                             *)
(***************************************************************************)
C4_CurrentWeek ==
    pc # "call" =>
        IF Decided(schedule) = {}
        THEN /\ pc = "raised"
             /\ error = "ValueError"
             /\ current_week = None
             /\ heap = <<>> /\ power_scores = None /\ ranked_teams = None
        ELSE /\ error # "ValueError"
             /\ current_week # None
             /\ \E i \in Decided(schedule) : schedule[i].matchupPeriodId = current_week[1]
             /\ \A i \in Decided(schedule) : schedule[i].matchupPeriodId <= current_week[1]

\* the call failed on a schedule that has matchups, with and without a winner key
C4_Witness ==
    /\ pc = "raised"
    /\ error = "ValueError"
    /\ \E i \in DOMAIN schedule : schedule[i].winner = "UNDECIDED"
    /\ \E i \in DOMAIN schedule : schedule[i].winner = "NONE"

(***************************************************************************)
(* C5: whenever MAX_WEEK is configured (any integer, 0 included), every    *)
(* later step works on exactly the matchups whose matchupPeriodId does not *)
(* exceed it; when it is not configured the schedule is used unchanged.    *)
(***************************************************************************)
C5_MaxWeekFilter ==
    pc # "call" =>
        IF env_MAX_WEEK # None
        THEN schedule = SelectSeq(data_schedule,
                                  LAMBDA m : m.matchupPeriodId <= ParseInt(env_MAX_WEEK[1]))
        ELSE schedule = data_schedule

(***************************************************************************)
(* C6: rank_stat with higher-is-better is standard competition ranking:    *)
(* every key is ranked, and its rank is 1 plus the number of keys with a   *)
(* strictly better value (so equal values share a rank, the best value has *)
(* rank 1 and the next distinct value skips the tied predecessors).        *)
(***************************************************************************)
FractionGreater(x, y) == x.num * y.den > y.num * x.den

C6_CompetitionRanking ==
    (pc = "rank_stat_done" /\ rs_reverse) =>
        /\ DKeys(rs_out[1]) = DKeys(rs_in)
        /\ Len(rs_out[1]) = Len(rs_in)
        /\ \A i \in DOMAIN rs_in :
              DGet(rs_out[1], rs_in[i].k) =
                  1 + Cardinality({j \in DOMAIN rs_in : FractionGreater(rs_in[j].v, rs_in[i].v)})

\* two keys tied for rank 1 under different spellings of the value, and a third
\* key that skips to rank 3
C6_Witness ==
    /\ pc = "rank_stat_done" /\ rs_reverse
    /\ \E a, b, c \in DKeys(rs_in) :
          /\ a # b
          /\ DGet(rs_in, a) # DGet(rs_in, b)
          /\ DGet(rs_out[1], a) = 1 /\ DGet(rs_out[1], b) = 1
          /\ DGet(rs_out[1], c) = 3

(***************************************************************************)
(* C7: the all-play wins plus losses credited to a team for a week it      *)
(* scored in are N - 1, N the number of teams scoring that week, so its    *)
(* accumulated wins + losses are the sum of N_w - 1 over its score entries.*)
(***************************************************************************)
C7_AllPlayTotals ==
    stats # None =>
        \A tid \in DKeys(stats[1].overall_wins) :
            DGet(stats[1].overall_wins, tid) + DGet(stats[1].overall_losses, tid) =
                SetSum(EntriesOf(schedule, tid),
                       [e \in EntriesOf(schedule, tid) |->
                          Cardinality(TeamsScoring(schedule, EntryWeek(schedule, e))) - 1])

(***************************************************************************)
(* C8: for every week, a scoring team is credited one win for every team   *)
(* it outscored that week and one loss for every team that outscored it,   *)
(* equal scores included.                                                  *)
(***************************************************************************)
Outscored(sched, e) ==
    {f \in WeekEntries(sched, EntryWeek(sched, e)) : EntryPoints(sched, f) < EntryPoints(sched, e)}
OutscoredBy(sched, e) ==
    {f \in WeekEntries(sched, EntryWeek(sched, e)) : EntryPoints(sched, f) > EntryPoints(sched, e)}

C8_AllPlayCredit ==
    stats # None =>
        \A tid \in DKeys(stats[1].overall_wins) :
            /\ DGet(stats[1].overall_wins, tid) =
                  SetSum(EntriesOf(schedule, tid),
                         [e \in EntriesOf(schedule, tid) |-> Cardinality(Outscored(schedule, e))])
            /\ DGet(stats[1].overall_losses, tid) =
                  SetSum(EntriesOf(schedule, tid),
                         [e \in EntriesOf(schedule, tid) |-> Cardinality(OutscoredBy(schedule, e))])

(***************************************************************************)
(* C9: the composite score of every team is                                *)
(*   record_weight*record_rank + 1.0*overall_rank + 1.0*ppg_rank           *)
(*   + 1.2*ros_rank, plus 1.0*consistency_rank from week 3 on,             *)
(* with record_weight = 1.2*current_week before week 3 and 3.0 from then.  *)
(* (Scores are in hundredths.)                                             *)
(***************************************************************************)
C9_CompositeScore ==
    pc \in {"rank", "returned"} =>
        \A o \in DOMAIN heap :
            LET tid == heap[o].team_id
                week == current_week[1]
            IN  heap[o].pr_score =
                    (IF week < 3 THEN 120 * week ELSE 300) * RecordRank(tid)
                    + 100 * DGet(stats[1].overall_ranks, tid)
                    + 100 * DGet(stats[1].ppg_ranks, tid)
                    + 120 * DGet(stats[1].ros_ranks, tid)
                    + (IF week >= 3 THEN 100 * DGet(stats[1].consistency_ranks, tid) ELSE 0)

\* a ranking from week 3 on, with ROS strengths given, in which some team's
\* consistency rank differs from its PPG rank and the record ranks differ
C9_Witness ==
    /\ pc = "returned"
    /\ current_week[1] >= 3
    /\ ros_arg # None
    /\ \E o \in DOMAIN heap :
          DGet(stats[1].consistency_ranks, heap[o].team_id)
              # DGet(stats[1].ppg_ranks, heap[o].team_id)
    /\ \E o \in DOMAIN heap : RecordRank(heap[o].team_id) > 1

(***************************************************************************)
(* C10: the engine leaves its arguments alone: teams, schedule and         *)
(* ros_strength are never changed, and rank_teams_by_score leaves every    *)
(* record of its input list with the fields and values it had.             *)
(***************************************************************************)
C10_NoSideEffects ==
    [][/\ inputs' = inputs
       /\ pc = "rank" =>
             \A i \in DOMAIN power_scores[1] :
                 heap'[power_scores[1][i]] = heap[power_scores[1][i]]]_vars

====
